---- MODULE Spec2Model ----
(***************************************************************************)
(* The Roborock integration's config-entry lifecycle                       *)
(* (custom_components/roborock/__init__.py): async_setup_entry,            *)
(* async_unload_entry, async_reload_entry and the polling coordinator      *)
(* RoborockDataUpdateCoordinator.  Every action is one run of the code     *)
(* between two awaits; the collaborators (get_home_data, connect, the      *)
(* host's platform tear-down) answer nondeterministically.  The host runs  *)
(* the lifecycle calls of one entry one after the other; update cycles of  *)
(* registered coordinators run in between and during them.                 *)
(***************************************************************************)
EXTENDS Integers, Sequences, FiniteSets, TLC

\* ------------------------------------------------------------------ bounds
\* Coordinators constructed per entry (one per run of the setup body).
MaxCoordinators == 2
\* Update cycles a driver of the coordinator class starts per coordinator.
MaxTicks == 3

\* ------------------------------------------------------- entries, platforms
Entries == {"e1"}

\* const.PLATFORMS, in its order.
PLATFORMS == <<"vacuum", "sensor">>

PlatformSet == {PLATFORMS[i] : i \in 1..Len(PLATFORMS)}

\* Values of entry.data.get(CONF_HOME_DATA): missing/None, an empty payload,
\* a cached payload.
HomeDataValues == {"None", "empty", "cached"}

\* Values of one per-platform option flag: not set, True, False.
OptionValues == {"absent", "on", "off"}

\* entry.data.get(CONF_USER_DATA) of entry e.
UserData(e) == <<"user_data", e>>

VARIABLES
    domainSet,   \* DOMAIN in hass.data
    registry,    \* hass.data[DOMAIN]: entry id -> coordinator (0: no key)
    entryData,   \* entry.data[CONF_HOME_DATA] of each entry
    options,     \* entry.options of each entry
    coords,      \* the coordinator objects of each entry that exist
    call,        \* the lifecycle call in progress on each entry
    last,        \* the lifecycle call of each entry that finished last
    listening,   \* an update listener async_reload_entry is on the entry
    forwarded,   \* platform set-ups forwarded and not torn down
    loaded,      \* the host holds the entry as set up
    tasks,       \* platform set-up tasks created, not yet started, and
                 \* with no async_unload_entry begun since
    orphaned     \* a discarded coordinator's client is still connected

vars == <<domainSet, registry, entryData, options, coords, call,
          last, listening, forwarded, loaded, tasks, orphaned>>

\* -------------------------------------------------------------- coordinator
\* RoborockDataUpdateCoordinator.__init__: the client handle, no platforms,
\* disconnected; the base class starts with last_update_success = True.
\* attempts and successes count the connect calls and those that returned;
\* cycles counts the update cycles a driver of the class alone has started.
NewCoordinator(user_data, home_data) ==
    [api |-> <<user_data, home_data>>,
     platforms |-> <<>>,
     connected |-> FALSE,
     last_update_success |-> TRUE,
     tick |-> "idle",
     cycles |-> 0,
     attempts |-> 0,
     successes |-> 0]

\* A tick that calls connect whatever the connected flag says.
UpdateDataStartAlwaysConnects(c) ==
    [c EXCEPT !.tick = "connecting", !.attempts = @ + 1]

\* A retry limit: once a connect has been tried, later ticks call it no more.
UpdateDataStartGivesUp(c) ==
    IF c.connected \/ c.attempts >= 1
    THEN c
    ELSE [c EXCEPT !.tick = "connecting", !.attempts = @ + 1]

\* _async_update_data up to its await: connected, the cycle is over at once
\* and the base class records a success; disconnected, connect is called on
\* a worker thread.
UpdateDataStart(c) ==
    IF c.connected
    THEN [c EXCEPT !.last_update_success = TRUE]
    ELSE [c EXCEPT !.tick = "connecting", !.attempts = @ + 1]

\* A connect fault that is swallowed: the flag is set all the same.
ConnectResultSetsFlag(c, ok) ==
    [c EXCEPT !.tick = "idle", !.connected = TRUE,
              !.last_update_success = ok,
              !.successes = IF ok THEN @ + 1 ELSE @]

\* _async_update_data after its await: connect returned, the flag is set;
\* connect raised, UpdateFailed is raised and the base class records the
\* failure.
ConnectResult(c, ok) ==
    IF ok
    THEN [c EXCEPT !.tick = "idle", !.connected = TRUE,
                   !.last_update_success = TRUE, !.successes = @ + 1]
    ELSE [c EXCEPT !.tick = "idle", !.last_update_success = FALSE]

\* ------------------------------------------------------------ call records
IdleCall ==
    [op |-> "none", pc |-> "idle", hd |-> "None", coord |-> 0,
     fetches |-> 0, fetched |-> 0, fetchArg |-> <<>>,
     req |-> {}, pend |-> {}, failed |-> {}, unloaded |-> "none",
     after |-> "none"]

\* No call has finished yet.
NoCall == [op |-> "none", res |-> "none", fetches |-> 0, after |-> "none"]

\* What the call before a reload hands to it: an unload that returned tells
\* its result, any other call nothing.
Handed(l) == IF l.op = "unload" /\ l.res \in {"True", "False"}
             THEN l.res ELSE "none"

\* The record of the call cl finishing with res: the discovery fetches it
\* made and, for a reload, the result of the unload that had just returned
\* when it started.
Done(cl, res) ==
    [op |-> cl.op, res |-> res, fetches |-> cl.fetches, after |-> cl.after]

Range(s) == {s[i] : i \in 1..Len(s)}

\* The objects of s without the one at i: nothing refers to it any more.
Discard(s, i) ==
    [j \in 1..(Len(s) - 1) |-> IF j < i THEN s[j] ELSE s[j + 1]]

\* -------------------------------------------------------------------- Init
\* Nothing is set up: hass.data has no DOMAIN key, no coordinator exists.  The
\* host's stored entry may or may not hold home data and option flags.
Init ==
    /\ domainSet = FALSE
    /\ registry = [e \in Entries |-> 0]
    /\ entryData \in [Entries -> HomeDataValues]
    /\ options \in [Entries -> [PlatformSet -> OptionValues]]
    /\ coords = [e \in Entries |-> <<>>]
    /\ call = [e \in Entries |-> IdleCall]
    /\ last = [e \in Entries |-> NoCall]
    /\ listening = [e \in Entries |-> FALSE]
    /\ forwarded = [e \in Entries |-> [p \in PlatformSet |-> 0]]
    /\ loaded = [e \in Entries |-> FALSE]
    /\ tasks = [e \in Entries |-> {}]
    /\ orphaned = [e \in Entries |-> FALSE]

\* ------------------------------------------------------- async_setup_entry
\* A test "is None" in place of "not home_data".
NeedsFetchOnlyNone(home_data) == home_data = "None"

\* A fetch on every setup, cached home data or not.
NeedsFetchAlways(home_data) == TRUE

\* "if not home_data": None and the empty payload are falsy.
NeedsFetch(home_data) == home_data \in {"None", "empty"}

\* The fetched home data written back to the entry.
EntryDataStoresFetch(data, home_data) == "cached"

\* The fetched home data is bound to the local home_data only; entry.data is
\* not written.
EntryDataAfterFetch(data, home_data) == data

\* Registration whatever the first refresh reported.
RefreshSucceededAlways(c) == TRUE

\* "if not coordinator.last_update_success: raise ConfigEntryNotReady".
RefreshSucceeded(c) == c.last_update_success

\* A flag that counts only when the options hold it as set.
EnabledOnlyIfSet(opts, p) == opts[p] = "on"

\* entry.options.get(platform, True).
Enabled(opts, p) == opts[p] # "off"

\* The platforms appended to coordinator.platforms, in PLATFORMS' order.
EnabledPlatforms(opts) ==
    SelectSeq(PLATFORMS, LAMBDA p : Enabled(opts, p))

\* RoborockMqttClient(user_data, home_data), the coordinator around it, and
\* async_refresh up to the await on connect.
ConstructAndRefresh(e, cl, home_data) ==
    LET c == Len(coords[e]) + 1 IN
    /\ coords' = [coords EXCEPT ![e] =
                     Append(@, UpdateDataStart(
                                   NewCoordinator(UserData(e), home_data)))]
    /\ call' = [call EXCEPT ![e] =
                   [cl EXCEPT !.pc = "refreshing", !.hd = home_data,
                              !.coord = c]]

\* async_setup_entry up to its first await: the discovery fetch when the
\* home data is falsy, the first connect otherwise.
SetupBody(e, cl) ==
    /\ domainSet' = TRUE
    /\ IF NeedsFetch(entryData[e])
       THEN /\ call' = [call EXCEPT ![e] =
                          [cl EXCEPT !.pc = "fetching", !.fetches = @ + 1,
                                     !.fetchArg = UserData(e)]]
            /\ UNCHANGED coords
       ELSE ConstructAndRefresh(e, cl, entryData[e])

\* The host sets up an entry it does not hold as set up.
SetupEntry(e) ==
    /\ call[e].op = "none"
    /\ ~loaded[e]
    /\ Len(coords[e]) < MaxCoordinators
    /\ SetupBody(e, [IdleCall EXCEPT !.op = "setup"])
    /\ UNCHANGED <<registry, entryData, options, last, listening,
                   forwarded, loaded, tasks, orphaned>>

\* get_home_data returned.
FetchReturns(e) ==
    /\ call[e].pc = "fetching"
    /\ ConstructAndRefresh(e, [call[e] EXCEPT !.fetched = @ + 1], "fetched")
    /\ entryData' = [entryData EXCEPT ![e] = EntryDataAfterFetch(@, "fetched")]
    /\ UNCHANGED <<domainSet, registry, options, last, listening,
                   forwarded, loaded, tasks, orphaned>>

\* The fault caught and the setup carried on without home data.
FetchRaisesSwallowed(e) ==
    /\ call[e].pc = "fetching"
    /\ ConstructAndRefresh(e, call[e], "None")
    /\ UNCHANGED <<domainSet, registry, entryData, options, last, listening,
                   forwarded, loaded, tasks, orphaned>>

\* get_home_data raised: nothing catches it.
FetchRaises(e) ==
    /\ call[e].pc = "fetching"
    /\ last' = [last EXCEPT ![e] = Done(call[e], "FetchError")]
    /\ call' = [call EXCEPT ![e] = IdleCall]
    /\ UNCHANGED <<domainSet, registry, entryData, options, coords,
                   listening, forwarded, loaded, tasks, orphaned>>

\* The coordinator stored ahead of the last_update_success test.
RegistryWrittenFirst(reg, e, c) == [reg EXCEPT ![e] = c]

\* ConfigEntryNotReady is raised ahead of the registry write.
RegistryAfterNotReady(reg, e, c) == reg

\* The first refresh is over and failed: ConfigEntryNotReady; the
\* coordinator was held by the local variable alone.
SetupNotReady(e) ==
    LET c == call[e].coord IN
    /\ call[e].pc = "refreshing"
    /\ coords[e][c].tick = "idle"
    /\ ~RefreshSucceeded(coords[e][c])
    /\ registry' = RegistryAfterNotReady(registry, e, c)
    /\ coords' = [coords EXCEPT ![e] = Discard(@, c)]
    /\ orphaned' = [orphaned EXCEPT ![e] = @ \/ coords[e][c].connected]
    /\ last' = [last EXCEPT ![e] = Done(call[e], "NotReady")]
    /\ call' = [call EXCEPT ![e] = IdleCall]
    /\ UNCHANGED <<domainSet, entryData, options, listening, forwarded,
                   loaded, tasks>>

\* A setup that forwards the platforms and leaves the registry as it was.
RegistryNotWritten(reg, e, c) == reg

\* "hass.data[DOMAIN][entry.entry_id] = coordinator", ahead of the loop that
\* creates the platform tasks.
RegistryAfterSetup(reg, e, c) == [reg EXCEPT ![e] = c]

\* hass.async_create_task(async_forward_entry_setup(entry, platform)) for
\* every enabled platform: one task each, to start later.
Spawned(opts) == {p \in PlatformSet : Enabled(opts, p)}

\* The first refresh is over and succeeded: the coordinator is stored under
\* the entry id, every enabled platform is appended and forwarded, the
\* update listener is added.
SetupRegisters(e) ==
    LET c == call[e].coord IN
    /\ call[e].pc = "refreshing"
    /\ coords[e][c].tick = "idle"
    /\ RefreshSucceeded(coords[e][c])
    /\ registry' = RegistryAfterSetup(registry, e, c)
    /\ coords' = [coords EXCEPT ![e][c].platforms = EnabledPlatforms(options[e])]
    /\ forwarded' = [forwarded EXCEPT ![e] =
                        [p \in PlatformSet |->
                            IF Enabled(options[e], p) THEN @[p] + 1 ELSE @[p]]]
    /\ listening' = [listening EXCEPT ![e] = TRUE]
    /\ last' = [last EXCEPT ![e] =
                   Done(call[e], IF call[e].op = "setup" THEN "True"
                                                         ELSE "None")]
    /\ loaded' = [loaded EXCEPT ![e] = @ \/ call[e].op = "setup"]
    /\ tasks' = [tasks EXCEPT ![e] = @ \cup Spawned(options[e])]
    /\ call' = [call EXCEPT ![e] = IdleCall]
    /\ UNCHANGED <<domainSet, entryData, options, orphaned>>

\* ------------------------------------------------------------ update cycle
\* The connect call of coordinator c returned (ok) or raised.
ConnectReturn(e, c, ok) ==
    /\ c \in 1..Len(coords[e])
    /\ coords[e][c].tick = "connecting"
    /\ coords' = [coords EXCEPT ![e][c] = ConnectResult(@, ok)]
    /\ UNCHANGED <<domainSet, registry, entryData, options, call,
                   last, listening, forwarded, loaded, tasks, orphaned>>

\* A scheduled update cycle of a coordinator the host knows: one at a time
\* per coordinator, and none while setup awaits the first refresh.
Tick(e, c) ==
    /\ c \in 1..Len(coords[e])
    /\ ~(call[e].pc = "refreshing" /\ call[e].coord = c)
    /\ coords[e][c].tick = "idle"
    /\ coords' = [coords EXCEPT ![e][c] = UpdateDataStart(@)]
    /\ UNCHANGED <<domainSet, registry, entryData, options, call,
                   last, listening, forwarded, loaded, tasks, orphaned>>

\* ------------------------------------------------------ async_unload_entry
\* The tear-downs asked of the host: "for platform in PLATFORMS if platform
\* in coordinator.platforms".
Requested(c) ==
    {PLATFORMS[i] : i \in {j \in 1..Len(PLATFORMS) :
                               PLATFORMS[j] \in Range(c.platforms)}}

\* any() in place of all().
UnloadedIfAny(req, failed) == req = {} \/ failed # req

\* all(await asyncio.gather(...)): no requested tear-down reported failure.
Unloaded(req, failed) == failed = {}

\* async_unload_entry up to its await.  hass.data[DOMAIN][entry.entry_id]
\* raises KeyError when DOMAIN or the entry id is missing; the error ends
\* the call (and the reload around it).
UnloadBody(e, cl) ==
    IF ~domainSet \/ registry[e] = 0
    THEN /\ last' = [last EXCEPT ![e] = Done(cl, "KeyError")]
         /\ call' = [call EXCEPT ![e] = IdleCall]
    ELSE /\ call' = [call EXCEPT ![e] =
                        [cl EXCEPT !.pc = "teardown", !.coord = registry[e],
                                   !.req = Requested(coords[e][registry[e]]),
                                   !.pend = Requested(coords[e][registry[e]])]]
         /\ UNCHANGED last

\* The tasks followed once an async_unload_entry has begun: those created
\* before it are no longer tasks that no unload has followed.
TasksOnceUnloadBegan(ts) == {}

\* The host unloads an entry it holds as set up.
UnloadEntry(e) ==
    /\ call[e].op = "none"
    /\ loaded[e]
    /\ UnloadBody(e, [IdleCall EXCEPT !.op = "unload"])
    /\ tasks' = [tasks EXCEPT ![e] = TasksOnceUnloadBegan(@)]
    /\ UNCHANGED <<domainSet, registry, entryData, options, coords,
                   listening, forwarded, loaded, orphaned>>

\* The host answers one async_forward_entry_unload: True (the platform is
\* torn down) or False.
TeardownReturn(e, p, ok) ==
    /\ call[e].pc = "teardown"
    /\ p \in call[e].pend
    /\ call' = [call EXCEPT ![e].pend = @ \ {p},
                            ![e].failed = IF ok THEN @ ELSE @ \cup {p}]
    /\ forwarded' = [forwarded EXCEPT ![e][p] = IF ok THEN 0 ELSE @]
    /\ UNCHANGED <<domainSet, registry, entryData, options, coords,
                   last, listening, loaded, tasks, orphaned>>

\* gather is over: the entry is popped when all() holds.  async_unload_entry
\* returns; inside async_reload_entry the result is dropped and setup is
\* next.
UnloadFinish(e) ==
    LET unloaded == Unloaded(call[e].req, call[e].failed) IN
    /\ call[e].pc = "teardown"
    /\ call[e].pend = {}
    /\ registry' = IF unloaded THEN [registry EXCEPT ![e] = 0] ELSE registry
    /\ coords' = IF unloaded
                 THEN [coords EXCEPT ![e] = Discard(@, registry[e])]
                 ELSE coords
    /\ IF call[e].op = "unload"
       THEN /\ last' = [last EXCEPT ![e] =
                           Done(call[e], IF unloaded THEN "True"
                                                     ELSE "False")]
            /\ loaded' = [loaded EXCEPT ![e] = ~unloaded]
            /\ call' = [call EXCEPT ![e] = IdleCall]
       ELSE /\ call' = [call EXCEPT ![e] =
                           [IdleCall EXCEPT !.op = "reload", !.pc = "setup",
                                            !.after = call[e].after,
                                            !.unloaded = IF unloaded
                                                         THEN "True"
                                                         ELSE "False"]]
            /\ UNCHANGED <<last, loaded>>
    /\ orphaned' = IF unloaded
                   THEN [orphaned EXCEPT ![e] =
                            @ \/ coords[e][registry[e]].connected]
                   ELSE orphaned
    /\ UNCHANGED <<domainSet, entryData, options, listening, forwarded,
                   tasks>>

\* The event loop starts the set-up task of platform p: the host's
\* async_forward_entry_setup runs for the platform.
TaskStart(e, p) ==
    /\ p \in tasks[e]
    /\ tasks' = [tasks EXCEPT ![e] = @ \ {p}]
    /\ UNCHANGED <<domainSet, registry, entryData, options, coords, call,
                   last, listening, forwarded, loaded, orphaned>>

\* ------------------------------------------------------ async_reload_entry
\* The update listener added by a setup fires after the host stored new
\* options (or the same ones); async_reload_entry starts with the unload.
ReloadEntry(e, opts) ==
    /\ call[e].op = "none"
    /\ listening[e]
    /\ Len(coords[e]) < MaxCoordinators
    /\ options' = [options EXCEPT ![e] = opts]
    /\ UnloadBody(e, [IdleCall EXCEPT !.op = "reload",
                                    !.after = Handed(last[e])])
    /\ tasks' = [tasks EXCEPT ![e] = TasksOnceUnloadBegan(@)]
    /\ UNCHANGED <<domainSet, registry, entryData, coords, listening,
                   forwarded, loaded, orphaned>>

\* "await async_setup_entry(hass, entry)", reached once the unload returned.
ReloadSetup(e) ==
    /\ call[e].op = "reload"
    /\ call[e].pc = "setup"
    /\ SetupBody(e, call[e])
    /\ UNCHANGED <<registry, entryData, options, last, listening,
                   forwarded, loaded, tasks, orphaned>>

\* ------------------------------------------------------- the specification
Next ==
    \E e \in Entries :
        \/ SetupEntry(e)
        \/ FetchReturns(e)
        \/ FetchRaises(e)
        \/ SetupNotReady(e)
        \/ SetupRegisters(e)
        \/ UnloadEntry(e)
        \/ \E p \in PlatformSet, ok \in BOOLEAN : TeardownReturn(e, p, ok)
        \/ UnloadFinish(e)
        \/ \E opts \in [PlatformSet -> OptionValues] : ReloadEntry(e, opts)
        \/ ReloadSetup(e)
        \/ \E c \in 1..MaxCoordinators, ok \in BOOLEAN : ConnectReturn(e, c, ok)
        \/ \E c \in 1..MaxCoordinators : Tick(e, c)
        \/ \E p \in PlatformSet : TaskStart(e, p)

Spec == Init /\ [][Next]_vars

\* The coordinator class on its own: a coordinator is constructed around a
\* client and its update cycle is run again and again, as the host's
\* scheduler does, with no lifecycle call around it.
CoordinatorCreated(e, home_data) ==
    /\ Len(coords[e]) < MaxCoordinators
    /\ coords' = [coords EXCEPT ![e] =
                     Append(@, NewCoordinator(UserData(e), home_data))]
    /\ UNCHANGED <<domainSet, registry, entryData, options, call, last,
                   listening, forwarded, loaded, tasks, orphaned>>

\* The driver starts one more update cycle of coordinator c.
CoordinatorTick(e, c) ==
    /\ c \in 1..Len(coords[e])
    /\ coords[e][c].tick = "idle"
    /\ coords[e][c].cycles < MaxTicks
    /\ coords' = [coords EXCEPT ![e][c] =
                     [UpdateDataStart(@) EXCEPT !.cycles = @ + 1]]
    /\ UNCHANGED <<domainSet, registry, entryData, options, call, last,
                   listening, forwarded, loaded, tasks, orphaned>>

NextCoordinator ==
    \E e \in Entries :
        \/ \E h \in {"cached", "fetched"} : CoordinatorCreated(e, h)
        \/ \E c \in 1..MaxCoordinators : CoordinatorTick(e, c)
        \/ \E c \in 1..MaxCoordinators, ok \in BOOLEAN : ConnectReturn(e, c, ok)

\* The driver's entry holds cached home data and no option flags.
InitCoordinator ==
    /\ Init
    /\ entryData = [e \in Entries |-> "cached"]
    /\ options = [e \in Entries |-> [p \in PlatformSet |-> "absent"]]

SpecCoordinator == InitCoordinator /\ [][NextCoordinator]_vars

\* The coordinator class under a scheduler that never stops: the update
\* cycle is started again whenever the last one is over, with no cap on the
\* cycles; the count of connect calls stops growing at MaxTicks.
RetryTick(e, c) ==
    /\ c \in 1..Len(coords[e])
    /\ coords[e][c].tick = "idle"
    /\ coords' = [coords EXCEPT ![e][c] =
                     [UpdateDataStart(@) EXCEPT
                         !.attempts = IF @ > MaxTicks THEN MaxTicks ELSE @]]
    /\ UNCHANGED <<domainSet, registry, entryData, options, call, last,
                   listening, forwarded, loaded, tasks, orphaned>>

NextRetry ==
    \E e \in Entries :
        \/ \E h \in {"cached", "fetched"} : CoordinatorCreated(e, h)
        \/ \E c \in 1..MaxCoordinators : RetryTick(e, c)
        \/ \E c \in 1..MaxCoordinators, ok \in BOOLEAN : ConnectReturn(e, c, ok)

\* The ticks of every coordinator keep firing, every connect call comes
\* back, and connect does not fail forever: a coordinator whose connect is
\* called again and again sees it return at some point.
SpecRetry ==
    /\ InitCoordinator
    /\ [][NextRetry]_vars
    /\ \A e \in Entries, c \in 1..MaxCoordinators :
          /\ WF_vars(RetryTick(e, c))
          /\ WF_vars(\E ok \in BOOLEAN : ConnectReturn(e, c, ok))
          /\ SF_vars(ConnectReturn(e, c, TRUE))

\* ================================================================== claims
\* The coordinators of entry e that exist.
Existing(e) == 1..Len(coords[e])

\* Home data that counts as absent: None or an empty payload.
Absent(home_data) == home_data \in {"None", "empty"}

\* A setup body of entry e is running (alone or inside a reload).
InSetup(e) == call[e].pc \in {"fetching", "refreshing"}

\* C1: when the first refresh of a setup fails, the setup ends with
\* ConfigEntryNotReady and leaves the registry as it was; the registry is
\* only ever written with the coordinator whose refresh has just succeeded
\* (its connect call returned).
C1_NotReadyNeverRegisters ==
    [][\A e \in Entries :
        /\ (registry'[e] # registry[e] /\ registry'[e] # 0)
              => /\ registry'[e] = call[e].coord
                 /\ coords'[e][registry'[e]].successes >= 1
                 /\ coords'[e][registry'[e]].connected
        /\ (/\ call[e].pc = "refreshing"
            /\ coords[e][call[e].coord].tick = "idle"
            /\ ~coords[e][call[e].coord].last_update_success
            /\ call'[e] # call[e])
              => /\ last'[e].res = "NotReady"
                 /\ registry'[e] = registry[e]]_vars

\* A setup ended not ready and no coordinator is registered.
C1_Witness ==
    \E e \in Entries :
        /\ last[e].op = "setup"
        /\ last[e].res = "NotReady"
        /\ call[e].op = "none"
        /\ registry[e] = 0

\* C2: after an unload that returned, a reload that no collaborator fault
\* cut short leaves a coordinator registered under the entry id, connected
\* as after a fresh setup.
C2_UnloadThenReloadRegistersOne ==
    \A e \in Entries :
        (/\ call[e].op = "none"
         /\ last[e].op = "reload"
         /\ last[e].after \in {"True", "False"}
         /\ last[e].res \in {"None", "KeyError"})
          => /\ registry[e] \in Existing(e)
             /\ coords[e][registry[e]].connected

\* C3: between lifecycle calls, every coordinator of an entry that exists is
\* the one registered under the entry id, so there is at most one.
C3_OneCoordinatorPerEntry ==
    \A e \in Entries :
        call[e].op = "none"
          => /\ Existing(e) \subseteq {registry[e]}
             /\ Cardinality(Existing(e)) <= 1

\* C4: a setup of an entry without home data calls get_home_data once, with
\* the entry's user_data, and only after that call has returned is the
\* client constructed (from the fetched home data) and connect attempted.
C4_AbsentHomeDataFetchedOnce ==
    \A e \in Entries :
        Absent(entryData[e])
          => /\ call[e].pc = "fetching"
                  => /\ call[e].fetches = 1
                     /\ call[e].fetched = 0
                     /\ call[e].fetchArg = UserData(e)
                     /\ call[e].coord = 0
             /\ call[e].pc = "refreshing"
                  => /\ call[e].fetches = 1
                     /\ call[e].fetched = 1
                     /\ call[e].fetchArg = UserData(e)
                     /\ coords[e][call[e].coord].api
                            = <<UserData(e), "fetched">>
             /\ (last[e].op = "setup"
                  \/ (last[e].op = "reload" /\ last[e].res # "KeyError"))
                  => last[e].fetches = 1

\* A setup of an entry without home data has fetched and awaits the connect.
C4_Witness ==
    \E e \in Entries :
        /\ Absent(entryData[e])
        /\ call[e].pc = "refreshing"
        /\ call[e].fetched = 1
        /\ coords[e][call[e].coord].attempts = 1

\* C5: a setup of an entry with cached home data never calls get_home_data
\* and constructs the client from the cached home data.
C5_CachedHomeDataNoFetch ==
    \A e \in Entries :
        ~Absent(entryData[e])
          => /\ call[e].pc # "fetching"
             /\ call[e].fetches = 0
             /\ last[e].fetches = 0
             /\ call[e].pc = "refreshing"
                  => coords[e][call[e].coord].api
                         = <<UserData(e), entryData[e]>>

\* A setup of an entry with cached home data has registered its coordinator.
C5_Witness ==
    \E e \in Entries :
        /\ ~Absent(entryData[e])
        /\ last[e].op = "setup"
        /\ last[e].res = "True"
        /\ registry[e] \in Existing(e)
        /\ coords[e][registry[e]].api = <<UserData(e), "cached">>

\* C6 as stated: once a setup of an entry has made a discovery fetch that
\* returned, no later setup of that entry makes a discovery fetch.
C6_FetchedHomeDataIsCached ==
    \A e \in Entries :
        (last[e].fetches = 1 /\ last[e].res \in {"True", "None", "NotReady"})
          => call[e].fetches = 0

\* C6 as amended: setup never writes entry.data, so the home data a setup
\* fetched serves that setup alone: a setup body that starts after a setup
\* that fetched makes the discovery fetch again.
C6_FetchedHomeDataNotStored ==
    [][\A e \in Entries :
        /\ entryData'[e] = entryData[e]
        /\ (last[e].fetches = 1 /\ ~InSetup(e) /\ InSetup(e)')
              => /\ call'[e].pc = "fetching"
                 /\ call'[e].fetches = 1]_vars

\* A setup that fetched has registered its coordinator, and the next setup
\* body of the entry is fetching again.
C6_Witness ==
    \E e \in Entries :
        /\ last[e].fetches = 1
        /\ last[e].res \in {"True", "None"}
        /\ call[e].pc = "fetching"
        /\ call[e].fetches = 1

\* C7: once the connect call of a coordinator has returned, the coordinator
\* stays connected and no step calls connect on it again: every later update
\* cycle ends at once, reports success and changes nothing but the driver's
\* count of cycles; connect returns at most once per coordinator.
C7_ConnectedTicksAreNoOps ==
    /\ [](\A e \in Entries : \A c \in Existing(e) :
            /\ coords[e][c].successes <= 1
            /\ coords[e][c].connected <=> coords[e][c].successes = 1)
    /\ [][\A e \in Entries : \A c \in Existing(e) :
            coords[e][c].connected
              => /\ c \in Existing(e)'
                 /\ coords'[e][c].last_update_success
                 /\ coords'[e][c]
                        = [coords[e][c] EXCEPT
                              !.cycles = coords'[e][c].cycles]]_vars

\* A connected coordinator has been through an update cycle after the one
\* whose connect returned.
C7_Witness ==
    \E e \in Entries : \E c \in Existing(e) :
        /\ coords[e][c].connected
        /\ coords[e][c].attempts = 1
        /\ coords[e][c].cycles >= 2

\* C8: a connect call that raises ends the cycle as a failed update and
\* leaves the coordinator disconnected, and every cycle that starts on a
\* disconnected coordinator makes exactly one connect call, however many
\* calls raised before.
C8_FaultLeavesDisconnectedAndRetries ==
    [][\A e \in Entries : \A c \in Existing(e) :
        /\ ConnectReturn(e, c, FALSE)
              => /\ ~coords'[e][c].connected
                 /\ ~coords'[e][c].last_update_success
                 /\ coords'[e][c].tick = "idle"
                 /\ coords'[e][c].attempts = coords[e][c].attempts
        /\ (CoordinatorTick(e, c) /\ ~coords[e][c].connected)
              => /\ coords'[e][c].tick = "connecting"
                 /\ coords'[e][c].attempts = coords[e][c].attempts + 1
        /\ (~coords[e][c].connected /\ coords[e][c].tick = "idle"
                /\ coords[e][c].cycles < MaxTicks)
              => ENABLED CoordinatorTick(e, c)]_vars

\* After two connect calls raised, a third cycle is connecting.
C8_Witness ==
    \E e \in Entries : \E c \in Existing(e) :
        /\ ~coords[e][c].connected
        /\ ~coords[e][c].last_update_success
        /\ coords[e][c].tick = "connecting"
        /\ coords[e][c].attempts = 3

\* C9: when the tear-downs of an unload are over, the coordinator is popped
\* exactly when none reported failure; when one did, the unload returns
\* False and the registry and the coordinator (its platform list included)
\* are as they were; no earlier step of the unload touches either.
C9_PoppedIffAllTornDown ==
    [][\A e \in Entries :
        /\ UnloadFinish(e)
              => /\ registry[e] \in Existing(e)
                 /\ registry'[e] = 0 <=> call[e].failed = {}
                 /\ call[e].failed # {}
                      => /\ registry'[e] = registry[e]
                         /\ coords'[e] = coords[e]
                         /\ call[e].op = "unload" => last'[e].res = "False"
                 /\ (call[e].failed = {} /\ call[e].op = "unload")
                      => last'[e].res = "True"
        /\ (call'[e].pc = "teardown")
              => /\ registry'[e] = registry[e]
                 /\ coords'[e] = coords[e]]_vars

\* An unload with a failed tear-down beside a successful one returned False
\* and the coordinator is still registered.
C9_Witness ==
    \E e \in Entries :
        /\ last[e].op = "unload"
        /\ last[e].res = "False"
        /\ call[e].op = "none"
        /\ registry[e] \in Existing(e)
        /\ \E p \in Requested(coords[e][registry[e]]) : forwarded[e][p] = 0

\* C10: every async_reload_entry that has ended went through its setup step.
C10_ReloadAlwaysRunsSetup ==
    \A e \in Entries :
        last[e].op = "reload"
          => last[e].res \in {"None", "NotReady", "FetchError"}

\* C11: a successful setup stores its coordinator under the entry id and
\* forwards exactly the platforms whose option flag is not off (an absent
\* flag counts as on); the platforms recorded on a coordinator never change
\* afterwards, and an unload that finds the coordinator asks the tear-down
\* of exactly the platforms that setup forwarded.
C11_UnloadRequestsWhatSetupForwarded ==
    [][\A e \in Entries :
        /\ SetupRegisters(e)
              => LET c == call[e].coord
                     on == {p \in PlatformSet :
                               options[e][p] \in {"absent", "on"}}
                 IN /\ registry'[e] = c
                    /\ Range(coords'[e][c].platforms) = on
                    /\ tasks'[e] = tasks[e] \cup on
                    /\ \A p \in PlatformSet :
                          forwarded'[e][p] =
                              forwarded[e][p] + (IF p \in on THEN 1 ELSE 0)
        /\ (registry[e] # 0 /\ registry'[e] = registry[e])
              => coords'[e][registry[e]].platforms
                     = coords[e][registry[e]].platforms
        /\ (call[e].pc # "teardown" /\ call'[e].pc = "teardown")
              => /\ registry[e] # 0
                 /\ call'[e].req = Range(coords[e][registry[e]].platforms)
                 /\ call'[e].pend = call'[e].req]_vars

\* An unload inside a reload asks the tear-down of the one platform the
\* setup forwarded, although the options now enable both.
C11_Witness ==
    \E e \in Entries :
        /\ call[e].pc = "teardown"
        /\ call[e].req = {"vacuum"}
        /\ \A p \in PlatformSet : options[e][p] # "off"

\* C12: while the discovery fetch of a setup is awaited that setup has built
\* no coordinator; when get_home_data raises, the call ends there with the
\* fault as its outcome: no client or coordinator is constructed, no connect
\* is started, the registry, the forwarded platforms, the platform tasks and
\* the update listener stay as they were.
C12_FetchFaultAbortsSetup ==
    [][\A e \in Entries :
        /\ call[e].pc = "fetching" => call[e].coord = 0
        /\ (FetchRaises(e) \/ (last'[e] # last[e] /\ last'[e].res = "FetchError"))
              => /\ call[e].pc = "fetching"
                 /\ last'[e].res = "FetchError"
                 /\ last'[e].op = call[e].op
                 /\ call'[e] = IdleCall
                 /\ coords'[e] = coords[e]
                 /\ registry'[e] = registry[e]
                 /\ forwarded'[e] = forwarded[e]
                 /\ tasks'[e] = tasks[e]
                 /\ listening'[e] = listening[e]]_vars

\* A first setup ended with the fetch fault: no coordinator exists and none
\* is registered.
C12_Witness ==
    \E e \in Entries :
        /\ last[e].op = "setup"
        /\ last[e].res = "FetchError"
        /\ call[e].op = "none"
        /\ coords[e] = <<>>
        /\ registry[e] = 0
        /\ \A p \in PlatformSet : forwarded[e][p] = 0

\* C13: under a scheduler whose ticks keep firing and a connect that does
\* not fail forever, every coordinator ends up connected and stays so for
\* good; a tick of a disconnected coordinator always calls connect again,
\* however many calls have failed, and a connected one is never
\* disconnected.
C13_RetryEventuallyConnectsForGood ==
    /\ \A e \in Entries, c \in 1..MaxCoordinators :
          [](c \in Existing(e)
               => <>[](c \in Existing(e) /\ coords[e][c].connected))
    /\ [][\A e \in Entries : \A c \in Existing(e) :
             /\ (RetryTick(e, c) /\ ~coords[e][c].connected)
                   => coords'[e][c].tick = "connecting"
             /\ coords[e][c].connected => coords'[e][c].connected]_vars

\* A coordinator is connected after MaxTicks connect calls or more, all but
\* the last of which failed.
C13_Witness ==
    \E e \in Entries : \E c \in Existing(e) :
        /\ coords[e][c].connected
        /\ coords[e][c].attempts = MaxTicks
        /\ coords[e][c].successes = 1
        /\ coords[e][c].last_update_success

\* C14: in every reachable state the coordinator stored in the registry is
\* connected, has last_update_success = True and has no connect call in
\* flight.
C14_RegisteredIsConnected ==
    \A e \in Entries :
        registry[e] # 0
          => /\ registry[e] \in Existing(e)
             /\ coords[e][registry[e]].connected
             /\ coords[e][registry[e]].last_update_success
             /\ coords[e][registry[e]].tick = "idle"
             /\ coords[e][registry[e]].successes = 1

\* A registered coordinator whose setup is over, so that its scheduled
\* ticks run, next to a second coordinator whose first connect failed.
C14_Witness ==
    \E e \in Entries :
        /\ registry[e] # 0
        /\ call[e].op = "reload"
        /\ call[e].pc = "refreshing"
        /\ call[e].coord # registry[e]
        /\ coords[e][registry[e]].connected
        /\ ~coords[e][call[e].coord].last_update_success

\* C15: from its first step to a failing end (fetch fault or "not ready") a
\* setup, alone or inside a reload, leaves the registry entry, the forwarded
\* platforms, the update listener and the registered coordinator as they
\* were, and its failing end creates no platform task.
C15_FailedSetupLeavesRegistry ==
    [][\A e \in Entries :
        (\/ call'[e].pc \in {"fetching", "refreshing"}
         \/ (last'[e] # last[e] /\ last'[e].res \in {"NotReady", "FetchError"}))
          => /\ registry'[e] = registry[e]
             /\ forwarded'[e] = forwarded[e]
             /\ listening'[e] = listening[e]
             /\ tasks'[e] \subseteq tasks[e]
             /\ registry[e] # 0
                  => coords'[e][registry[e]] = coords[e][registry[e]]]_vars

\* A reload whose unload step failed ended "not ready": the coordinator of
\* the earlier setup is still registered, with a platform still forwarded.
C15_Witness ==
    \E e \in Entries :
        /\ last[e].op = "reload"
        /\ last[e].res = "NotReady"
        /\ call[e].op = "none"
        /\ registry[e] \in Existing(e)
        /\ coords[e][registry[e]].connected
        /\ \E p \in PlatformSet : forwarded[e][p] = 1

\* C16: no platform of an entry is forwarded for setup more than once
\* without a tear-down in between.
C16_PlatformLoadedAtMostOnce ==
    \A e \in Entries : \A p \in PlatformSet : forwarded[e][p] <= 1

\* C17: per entry at most one client is connected and not disconnected,
\* counting the clients of the coordinators that exist and those of the
\* coordinators that were discarded.
C17_AtMostOneConnectedClient ==
    \A e \in Entries :
        Cardinality({c \in Existing(e) : coords[e][c].connected})
            + (IF orphaned[e] THEN 1 ELSE 0) <= 1

\* C18: a setup that creates platform tasks has written its coordinator to
\* the registry in the same step; while such a task waits with no unload
\* begun since, and when it starts, the registry holds that coordinator and
\* the coordinator lists the task's platform.
C18_TaskFindsCoordinator ==
    [][\A e \in Entries :
        /\ ~(tasks'[e] \subseteq tasks[e])
              => /\ call[e].coord # 0
                 /\ registry'[e] = call[e].coord
        /\ \A p \in PlatformSet :
              (p \in tasks[e] \/ TaskStart(e, p))
                => /\ registry[e] \in Existing(e)
                   /\ p \in Range(coords[e][registry[e]].platforms)]_vars

\* One platform task of a setup has started and the other still waits; the
\* coordinator is registered.
C18_Witness ==
    \E e \in Entries :
        /\ tasks[e] = {"sensor"}
        /\ registry[e] \in Existing(e)
        /\ Range(coords[e][registry[e]].platforms) = PlatformSet
        /\ last[e].res = "True"

====
